---- MODULE Spec2Model ----
(***************************************************************************)
(* Model of Lie::LiePositionMeasurementModel                               *)
(* (examples/Lie/LiePositionMeasurementModel.hpp): the measurement         *)
(* function h, the differentiation functor LieFunctor_, the constructor    *)
(* and updateJacobians, together with the finite-difference engine         *)
(* num_diff.df that updateJacobians drives.                                *)
(*                                                                         *)
(* Scalars are integers and every quotient of the engine is exact; the     *)
(* rounding of IEEE doubles is not part of the model.                      *)
(*                                                                         *)
(* Vectors are sequences, matrices are sequences of rows (M[i][j]).        *)
(***************************************************************************)
EXTENDS Integers, Sequences, FiniteSets, TLC

\* ------------------------------------------------------------------ sizes
\* LieFunctor_::inputs()
FunctorInputs == 6
\* LieFunctor_::values()
FunctorValues == 6
\* Eigen::Matrix<T, Dynamic, Dynamic> jac(6,12): rows and columns
JacRows == 6
JacCols == 12

\* State<T>: x is assigned to the measurement of FunctorValues entries
\* (measurement = x.x) and v is the remaining block of the JacCols columns
\* that jac and H are sized for.
CoordDim == FunctorValues
VelDim == JacCols - CoordDim

\* ----------------------------------------------------------------- bounds
\* coordinates and velocities are built from values in -MaxVal..MaxVal
MaxVal == 1
\* the scalars of a matrix that was allocated and never written read as
\* some value in 0..MaxGarbage, chosen anew at every allocation
MaxGarbage == 1
\* step-size parameters eps_base, eps_rel range over 1..MaxEps
MaxEps == 1
\* the linear maps of SpecLinear are LinDim x LinDim, their entries built
\* from coefficients in -MaxCoef..MaxCoef
LinDim == 2
MaxCoef == 1

\* ---------------------------------------------------------------- helpers
Abs(a) == IF a < 0 THEN -a ELSE a
Max(a, b) == IF a >= b THEN a ELSE b

\* Eigen setZero / setIdentity / a dynamic matrix that was allocated and
\* never written (every scalar reads as g)
ZeroVec(n) == [i \in 1..n |-> 0]
ZeroMat(r, c) == [i \in 1..r |-> [j \in 1..c |-> 0]]
IdentityMat(r, c) == [i \in 1..r |-> [j \in 1..c |-> IF i = j THEN 1 ELSE 0]]
UninitMat(r, c, g) == [i \in 1..r |-> [j \in 1..c |-> g]]
Rows(m) == Len(m)
Cols(m) == Len(m[1])
\* jac.col(j) = col
SetCol(m, j, col) == [i \in 1..Rows(m) |-> [m[i] EXCEPT ![j] = col[i]]]

\* ----------------------------------------------------------------- states
\* State<T>: manifold coordinates x and tangent velocity v
MkState(x, v) == [x |-> x, v |-> v]
Ramp(n, a, b) == [i \in 1..n |-> a + b * i]
Coords(n) == { Ramp(n, a, b) : a \in -MaxVal..MaxVal, b \in 0..MaxVal }
Vels == { [i \in 1..VelDim |-> c] : c \in 0..MaxVal }
States == { MkState(x, v) : x \in Coords(CoordDim), v \in Vels }
\* states whose coordinate block has another length than the functor declares
OddStates == { MkState(x, v) : x \in Coords(FunctorInputs - 1) \cup Coords(FunctorInputs + 1), v \in Vels }

VARIABLES
    H,        \* this->H, the measurement Jacobian
    V,        \* this->V, the noise Jacobian
    pc,       \* position: "idle", or inside updateJacobians/df
    lastOp,   \* the public operation called last: "none", "h", "linearize"
    argIn,    \* the state object as the caller passed it to that operation
    arg,      \* the same object as the callee left it
    ret,      \* the measurement returned by the last h (<<>> if none)
    err,      \* "none" or "DimensionMismatch"
    fn,       \* df: the function being differentiated
    x0,       \* df: the evaluation point (xx in updateJacobians)
    jac,      \* df: the work Jacobian (jac in updateJacobians)
    j,        \* df: the column being computed
    val1,     \* df: f(x0) in forward mode
    nfev,     \* df: evaluations of the measurement function so far
    mode,     \* configuration: "forward" or "central"
    epsBase,  \* configuration: absolute step floor
    epsRel,   \* configuration: relative step scale
    ref       \* history: the first completed linearize (argument, resulting H)

model == <<H, V>>
locals == <<fn, x0, jac, j, val1, nfev>>
config == <<mode, epsBase, epsRel>>
vars == <<H, V, pc, lastOp, argIn, arg, ret, err, fn, x0, jac, j, val1, nfev, mode, epsBase, epsRel, ref>>

NoVec == <<>>
NoState == MkState(NoVec, NoVec)
FunctorFn == [kind |-> "functor", A |-> NoVec]
LinearFn(A) == [kind |-> "linear", A |-> A]
NoRef == [set |-> FALSE, s |-> NoState, H |-> NoVec]

\* ------------------------------------------------------- measurement model
\* A mutation of h that writes the model's H
hCall_writesH(m, s) == [measurement |-> s.x, x |-> s, H |-> ZeroMat(Rows(m.H), Cols(m.H)), V |-> m.V]
\* A mutation of h that returns the velocity block
hCall_velocity(m, s) == [measurement |-> s.v, x |-> s, H |-> m.H, V |-> m.V]
\* M h(const S& x) const: measurement = x.x.  The result names the value
\* returned and what the call leaves in its argument and in the model m.
hCall(m, s) == [measurement |-> s.x, x |-> s, H |-> m.H, V |-> m.V]

\* A mutation of the functor that evaluates h twice
FunctorCall_twice(m, x) == [fvec |-> x, H |-> m.H, V |-> m.V, hcalls |-> 2, status |-> 0]
\* LieFunctor_::operator()(x, fvec): xx.x = x; xx.v.setZero(); fvec = m->h(xx)
FunctorCall(m, x) ==
    LET xx == MkState(x, ZeroVec(VelDim))
        r == hCall(m, xx)
    IN [fvec |-> r.measurement, H |-> r.H, V |-> r.V, hcalls |-> 1, status |-> 0]

\* A mutation of updateJacobians that zeroes V instead of H
ZeroedByUpdate_V(m) == [H |-> m.H, V |-> ZeroMat(Rows(m.V), Cols(m.V))]
\* this->H.setZero()
ZeroedByUpdate(m) == [H |-> ZeroMat(Rows(m.H), Cols(m.H)), V |-> m.V]

\* The model after construction: the base class sets H and V to the identity
\* and the constructor sets V to the identity again.
Constructed == [H |-> IdentityMat(FunctorValues, JacCols), V |-> IdentityMat(FunctorValues, FunctorValues)]

\* ---------------------------------------------------- differentiated function
\* f(x) = A x
LinearCall(A, m, x) ==
    LET Dot[k \in 0..Len(x), i \in 1..Rows(A)] ==
            IF k = 0 THEN 0 ELSE Dot[k - 1, i] + A[i][k] * x[k]
    IN [fvec |-> [i \in 1..Rows(A) |-> Dot[Len(x), i]], H |-> m.H, V |-> m.V, hcalls |-> 1, status |-> 0]
Eval(f, m, x) == IF f.kind = "functor" THEN FunctorCall(m, x) ELSE LinearCall(f.A, m, x)
Inputs(f) == IF f.kind = "functor" THEN FunctorInputs ELSE Cols(f.A)
Values(f) == IF f.kind = "functor" THEN FunctorValues ELSE Rows(f.A)

\* ------------------------------------------------------------- df, the engine
\* eps_j = max(eps_base, eps_rel * |x0[j]|)
StepSize(xj) == Max(epsBase, epsRel * Abs(xj))
Perturb(x, k, d) == [x EXCEPT ![k] = @ + d]
\* A mutation of the central divisor
CentralDivisor_eps(eps) == eps
CentralDivisor(eps) == 2 * eps
\* (a - b) / d, component by component
Quotient(a, b, d) == [i \in 1..Len(a) |-> (a[i] - b[i]) \div d]

\* The set-up of df: the declared input size must be the size of x0.
SizesAgree == Len(x0) = Inputs(fn)

DfBegin ==
    /\ pc = "df"
    /\ SizesAgree
    /\ pc' = "f0"
    /\ UNCHANGED <<model, lastOp, argIn, arg, ret, err, locals, config>>

\* A declared size that is not the size of x0 is a dimension mismatch: df
\* fails and computes nothing.
DfFail ==
    /\ pc = "df"
    /\ ~SizesAgree
    /\ pc' = "failed"
    /\ err' = "DimensionMismatch"
    /\ UNCHANGED <<model, lastOp, argIn, arg, ret, locals, config>>

\* Step 1: f0 = f(x0), needed by forward differences only.
DfBase ==
    /\ pc = "f0"
    /\ IF mode = "forward"
       THEN LET r == Eval(fn, [H |-> H, V |-> V], x0)
            IN /\ val1' = r.fvec
               /\ nfev' = nfev + r.hcalls
               /\ H' = r.H
               /\ V' = r.V
       ELSE UNCHANGED <<val1, nfev, H, V>>
    /\ j' = 1
    /\ pc' = "col"
    /\ UNCHANGED <<lastOp, argIn, arg, ret, err, fn, x0, jac, config>>

\* Step 2: column j of J from one (forward) or two (central) evaluations at
\* the perturbed point.
DfColumn ==
    /\ pc = "col"
    /\ j <= Inputs(fn)
    /\ LET eps == StepSize(x0[j])
           rp == Eval(fn, [H |-> H, V |-> V], Perturb(x0, j, eps))
       IN IF mode = "forward"
          THEN /\ jac' = SetCol(jac, j, Quotient(rp.fvec, val1, eps))
               /\ nfev' = nfev + rp.hcalls
               /\ H' = rp.H
               /\ V' = rp.V
          ELSE LET rm == Eval(fn, [H |-> rp.H, V |-> rp.V], Perturb(x0, j, -eps))
               IN /\ jac' = SetCol(jac, j, Quotient(rp.fvec, rm.fvec, CentralDivisor(eps)))
                  /\ nfev' = nfev + rp.hcalls + rm.hcalls
                  /\ H' = rm.H
                  /\ V' = rm.V
    /\ j' = j + 1
    /\ UNCHANGED <<pc, lastOp, argIn, arg, ret, err, fn, x0, val1, config>>

\* Step 3: return J.
DfReturn ==
    /\ pc = "col"
    /\ j > Inputs(fn)
    /\ pc' = "ret"
    /\ UNCHANGED <<model, lastOp, argIn, arg, ret, err, locals, config>>

\* ------------------------------------------------------ the model's operations
\* h(s), called by the filter
CallH(s) ==
    /\ pc = "idle"
    /\ LET r == hCall([H |-> H, V |-> V], s)
       IN /\ ret' = r.measurement
          /\ arg' = r.x
          /\ H' = r.H
          /\ V' = r.V
    /\ argIn' = s
    /\ lastOp' = "h"
    /\ err' = "none"
    /\ UNCHANGED <<pc, locals, config>>

\* updateJacobians(s) up to the call of num_diff.df: H.setZero(), the work
\* matrix jac(6,12), whose scalars nothing has written (they read as g), and
\* xx = x.x
UpdateJacobians(s, g) ==
    /\ pc = "idle"
    /\ LET z == ZeroedByUpdate([H |-> H, V |-> V])
       IN /\ H' = z.H
          /\ V' = z.V
    /\ jac' = UninitMat(JacRows, JacCols, g)
    /\ x0' = s.x
    /\ fn' = FunctorFn
    /\ j' = 0
    /\ val1' = NoVec
    /\ nfev' = 0
    /\ argIn' = s
    /\ arg' = s
    /\ ret' = NoVec
    /\ lastOp' = "linearize"
    /\ err' = "none"
    /\ pc' = "df"
    /\ UNCHANGED config

\* A mutation in which the failure of df does not keep H from being written
DfCompleted_orFailed == pc \in {"ret", "failed"}
\* The statement after num_diff.df(xx, jac) runs once df has returned
DfCompleted == pc = "ret"

\* this->H = jac, and the return of updateJacobians
StoreJacobian ==
    /\ DfCompleted
    /\ H' = jac
    /\ pc' = "idle"
    /\ fn' = FunctorFn
    /\ x0' = NoVec
    /\ jac' = NoVec
    /\ j' = 0
    /\ val1' = NoVec
    /\ UNCHANGED <<V, lastOp, argIn, arg, ret, err, nfev, config>>

\* The failure of df leaves updateJacobians before H = jac is reached
Abort ==
    /\ pc = "failed"
    /\ pc' = "idle"
    /\ fn' = FunctorFn
    /\ x0' = NoVec
    /\ jac' = NoVec
    /\ j' = 0
    /\ val1' = NoVec
    /\ UNCHANGED <<model, lastOp, argIn, arg, ret, err, nfev, config>>

H_call == \E s \in States : CallH(s)
Linearize == \E s \in States, g \in 0..MaxGarbage : UpdateJacobians(s, g)
LinearizeOdd == \E s \in OddStates, g \in 0..MaxGarbage : UpdateJacobians(s, g)

\* ------------------------------------------------------------ specifications
Configs == [mode : {"forward", "central"}, epsBase : 1..MaxEps, epsRel : 1..MaxEps]

Init ==
    /\ H = Constructed.H
    /\ V = Constructed.V
    /\ pc = "idle"
    /\ lastOp = "none"
    /\ argIn = NoState
    /\ arg = NoState
    /\ ret = NoVec
    /\ err = "none"
    /\ fn = FunctorFn
    /\ x0 = NoVec
    /\ jac = NoVec
    /\ j = 0
    /\ val1 = NoVec
    /\ nfev = 0
    /\ \E c \in Configs : mode = c.mode /\ epsBase = c.epsBase /\ epsRel = c.epsRel
    /\ ref = NoRef

\* The model as the filter drives it: h and linearize on states of the
\* declared size.
Next ==
    \/ H_call /\ UNCHANGED ref
    \/ Linearize /\ UNCHANGED ref
    \/ DfBegin /\ UNCHANGED ref
    \/ DfBase /\ UNCHANGED ref
    \/ DfColumn /\ UNCHANGED ref
    \/ DfReturn /\ UNCHANGED ref
    \/ StoreJacobian /\ UNCHANGED ref

Spec == Init /\ [][Next]_vars

\* The same, remembering the first completed linearize.
Remember == ref' = IF ref.set THEN ref ELSE [set |-> TRUE, s |-> argIn, H |-> H']
NextHist ==
    \/ H_call /\ UNCHANGED ref
    \/ Linearize /\ UNCHANGED ref
    \/ DfBegin /\ UNCHANGED ref
    \/ DfBase /\ UNCHANGED ref
    \/ DfColumn /\ UNCHANGED ref
    \/ DfReturn /\ UNCHANGED ref
    \/ StoreJacobian /\ Remember

SpecHist == Init /\ [][NextHist]_vars

\* The same, with linearize also given states of another coordinate size.
NextOdd ==
    \/ Next
    \/ LinearizeOdd /\ UNCHANGED ref
    \/ DfFail /\ UNCHANGED ref
    \/ Abort /\ UNCHANGED ref

SpecOdd == Init /\ [][NextOdd]_vars

\* The engine alone, on linear maps f(x) = A x.
LinMat(a, b, c) == [i \in 1..LinDim |-> [k \in 1..LinDim |-> a * i + b * k + (IF i = k THEN c ELSE 0)]]
LinMats == { LinMat(a, b, c) : a, b, c \in -MaxCoef..MaxCoef }

InitLinear ==
    /\ H = Constructed.H
    /\ V = Constructed.V
    /\ pc = "df"
    /\ lastOp = "none"
    /\ argIn = NoState
    /\ arg = NoState
    /\ ret = NoVec
    /\ err = "none"
    /\ \E A \in LinMats : fn = LinearFn(A)
    /\ x0 \in Coords(LinDim)
    /\ \E g \in 0..MaxGarbage : jac = UninitMat(LinDim, LinDim, g)
    /\ j = 0
    /\ val1 = NoVec
    /\ nfev = 0
    /\ \E c \in Configs : mode = c.mode /\ epsBase = c.epsBase /\ epsRel = c.epsRel
    /\ ref = NoRef

NextLinear ==
    \/ DfBegin /\ UNCHANGED ref
    \/ DfBase /\ UNCHANGED ref
    \/ DfColumn /\ UNCHANGED ref
    \/ DfReturn /\ UNCHANGED ref

SpecLinear == InitLinear /\ [][NextLinear]_vars

\* ---------------------------------------------------------------- properties
LinearizeDone == pc = "idle" /\ lastOp = "linearize" /\ err = "none"
HDone == pc = "idle" /\ lastOp = "h"
InDf == pc \in {"df", "f0", "col", "ret"}

\* C1: whenever h(s) has returned, the measurement it returned has the
\* length of s.x and equals it component for component.
C1_hReturnsCoordinates ==
    HDone => /\ Len(ret) = Len(argIn.x)
             /\ \A i \in 1..Len(ret) : ret[i] = argIn.x[i]
C1_Witness ==
    /\ HDone
    /\ argIn.x = <<1, 2, 3, 4, 5, 6>>
    /\ argIn.v # argIn.x
    /\ ret = <<1, 2, 3, 4, 5, 6>>

\* C2: after linearize at any state, the stored H is the identity matrix
\* (ones on the diagonal, zeros everywhere else).
C2_HIsIdentity == LinearizeDone => H = IdentityMat(Rows(H), Cols(H))

\* C3: the noise Jacobian V is the identity in every state the model
\* reaches, whatever h and linearize calls were made.
C3_NoiseJacobianIdentity == V = IdentityMat(FunctorValues, FunctorValues)
C3_Witness ==
    /\ HDone
    /\ H # Constructed.H
    /\ V = IdentityMat(FunctorValues, FunctorValues)

C5_LinearJacobianExact == (pc = "ret" /\ fn.kind = "linear") => jac = fn.A
C5_Witness ==
    /\ pc = "ret"
    /\ fn.kind = "linear"
    /\ mode = "central"
    /\ fn.A # ZeroMat(LinDim, LinDim)
    /\ x0 # ZeroVec(LinDim)
    /\ jac = fn.A

\* C6: a step that is a call of h, made by the filter or by the functor
\* while df runs, changes neither H nor V nor the state object it was given.
C6_hHasNoSideEffects ==
    [][ ((pc = "idle" /\ lastOp' = "h") \/ pc \in {"f0", "col"}) =>
            (H' = H /\ V' = V /\ arg' = argIn') ]_vars
C6_Witness ==
    /\ HDone
    /\ H # Constructed.H
    /\ arg = argIn
    /\ arg.v # ZeroVec(VelDim)

\* C7: the H stored by linearize(s) is a function of s: a later linearize of
\* the state that the first completed linearize was given stores the same H.
C7_HistoryFree == (LinearizeDone /\ ref.set /\ ref.s = argIn) => H = ref.H

\* C8: the functor's declared input size is the size of the coordinate
\* vector and the column count of the work Jacobian, its declared output
\* size is the row count, and H is FunctorValues x CoordDim after linearize.
C8_DimensionsConsistent ==
    /\ (InDf /\ fn.kind = "functor") =>
          /\ FunctorInputs = Len(x0)
          /\ FunctorInputs = Cols(jac)
          /\ FunctorValues = Rows(jac)
    /\ LinearizeDone => (Rows(H) = FunctorValues /\ Cols(H) = CoordDim)

\* C9: df evaluates the measurement function one call after the other:
\* before column j it has made 1 + (j-1) calls in forward mode and 2(j-1) in
\* central mode, and when it returns it has made FunctorInputs + 1 calls
\* (forward) or 2 * FunctorInputs calls (central).  While it runs it can
\* always take its next step, and j only grows, so it terminates.
C9_EvaluationCount ==
    fn.kind = "functor" =>
        /\ pc \in {"df", "f0", "col"} => ENABLED (DfBegin \/ DfBase \/ DfColumn \/ DfReturn)
        /\ pc = "col" => /\ j \in 1..(FunctorInputs + 1)
                         /\ nfev = IF mode = "forward" THEN 1 + (j - 1) ELSE 2 * (j - 1)
        /\ pc \in {"ret", "idle"} /\ lastOp = "linearize" =>
               nfev = IF mode = "forward" THEN FunctorInputs + 1 ELSE 2 * FunctorInputs
C9_Witness ==
    /\ pc = "ret"
    /\ fn.kind = "functor"
    /\ mode = "central"
    /\ nfev = 2 * FunctorInputs

\* C10: two states with the same coordinates and different velocities give
\* the same measurement from h and the same H from linearize.
C10_VelocityIrrelevant ==
    /\ HDone => \A v \in Vels : hCall([H |-> H, V |-> V], MkState(argIn.x, v)).measurement = ret
    /\ (LinearizeDone /\ ref.set /\ ref.s.x = argIn.x /\ ref.s.v # argIn.v) => H = ref.H

====
